---- MODULE Spec2Model ----
(***************************************************************************)
(* A model of GhostLinkedList (examples/linked_list/ghost_linked_list.rs), *)
(* the doubly linked list built from GhostCell and half-share StaticRc     *)
(* pointers, together with its double-ended iterator.                      *)
(*                                                                         *)
(* A node allocation is identified by its address, a positive integer.     *)
(* A HalfNodePtr is the address it points at: the two halves produced by   *)
(* one split are equal as values and differ only in the slot holding them  *)
(* (the head anchor, the tail anchor, a node's prev or a node's next).     *)
(* Option<T> is a sequence: None is <<>> and Some(x) is <<x>>.             *)
(***************************************************************************)
EXTENDS Integers, Sequences, FiniteSets, TLC

\* Total number of node allocations (pushes) in one run.
MaxAllocs == 3
\* Payloads are drawn from 1..MaxData.
MaxData == 2

Data == 1..MaxData

None == <<>>
Some(x) == <<x>>

VARIABLES
    head_tail,  \* GhostLinkedList::head_tail: None or Some(<<head, tail>>)
    heap,       \* heap[a]: the Node stored in allocation a (kept after a free)
    frees,      \* frees[a]: how many times allocation a was freed
    err,        \* "" or the message of the panic that aborted the program
    joins,      \* the <<left, right>> joins performed by the last operation
    deque,      \* reference double-ended queue driven by the same operations
    nPush,      \* number of pushes performed
    nPopSome,   \* number of pops that returned Some
    last,       \* the last operation: its name, its result, the reference
                \* deque's result for it, and the branch a pop took
    it,         \* the live GhostLinkedListIterator, if any
    owned       \* TRUE while the caller still holds the GhostLinkedList

vars == <<head_tail, heap, frees, err, joins, deque, nPush, nPopSome, last, it,
          owned>>

\* The list together with the node heap, as the operations see it.
Cur == [head_tail |-> head_tail, heap |-> heap, frees |-> frees,
        err |-> err, joins |-> <<>>]

\* An allocation is live from its creation until it is freed.
Live(s, a) == a \in 1..Len(s.heap) /\ s.frees[a] = 0
LiveSet(s) == {a \in 1..Len(s.heap) : s.frees[a] = 0}

\* A panic aborts the program with a message; the first message is kept.
Panic(s, msg) == IF s.err = "" THEN [s EXCEPT !.err = msg] ELSE s

\* new_halves: a fresh Node {data, prev: None, next: None} in a fresh
\* allocation (FullNodePtr::new), split into two half-shares of it.
new_halves(s, data) ==
    LET a == Len(s.heap) + 1
        node == [data |-> data, prev |-> None, next |-> None]
    IN  [st |-> [s EXCEPT !.heap = Append(s.heap, node),
                          !.frees = Append(s.frees, 0)],
         one |-> a, two |-> a]

\* What an allocation holds once its node was moved out and it was freed.
MovedOut == [data |-> 0, prev |-> None, next |-> None]

\* Mutant of into_inner: the halves are joined and the payload is returned,
\* but the allocation is never freed.
into_inner_leak(s, left, right) ==
    LET s1 == [s EXCEPT !.joins = Append(s.joins, <<left, right>>)]
    IN  IF left # right
        THEN [st |-> Panic(s1, "join: not the same allocation"), ret |-> None]
        ELSE [st |-> s1, ret |-> Some(s1.heap[left].data)]

\* into_inner: join the two halves into a full share (StaticRc::join checks
\* that both address the same allocation), move the node out and free the
\* allocation (FullNodePtr::into_inner, GhostNode::into_inner), check that
\* it holds no edge any more (the two debug_assert!, as a build with debug
\* assertions runs them), return its payload.
into_inner(s, left, right) ==
    LET s1 == [s EXCEPT !.joins = Append(s.joins, <<left, right>>)]
    IN  IF left # right
        THEN [st |-> Panic(s1, "join: not the same allocation"), ret |-> None]
        ELSE LET node == s1.heap[left]
                 s2 == [s1 EXCEPT !.frees[left] = @ + 1,
                                  !.heap[left] = MovedOut]
             IN  IF node.prev # None
                 THEN [st |-> Panic(s2, "assertion failed: node.prev.is_none()"),
                       ret |-> None]
                 ELSE IF node.next # None
                 THEN [st |-> Panic(s2, "assertion failed: node.next.is_none()"),
                       ret |-> None]
                 ELSE [st |-> s2, ret |-> Some(node.data)]

\* Mutant of push_front: the new node's next edge is never set.
push_front_no_next(s, data) ==
    LET nh == new_halves(s, data)
        s0 == [nh.st EXCEPT !.head_tail = None]
    IN  IF s.head_tail # None
        THEN LET head == s.head_tail[1][1]
                 tail == s.head_tail[1][2]
                 s1 == [s0 EXCEPT !.heap[head].prev = Some(nh.one)]
             IN  [s1 EXCEPT !.head_tail = Some(<<nh.two, tail>>)]
        ELSE [s0 EXCEPT !.head_tail = Some(<<nh.one, nh.two>>)]

\* Mutant of push_front: the old head's prev edge is never set, so one half
\* of the new node is dropped.
push_front_no_prev(s, data) ==
    LET nh == new_halves(s, data)
        s0 == [nh.st EXCEPT !.head_tail = None]
    IN  IF s.head_tail # None
        THEN LET head == s.head_tail[1][1]
                 tail == s.head_tail[1][2]
                 s2 == [s0 EXCEPT !.heap[nh.two].next = Some(head)]
             IN  [s2 EXCEPT !.head_tail = Some(<<nh.two, tail>>)]
        ELSE [s0 EXCEPT !.head_tail = Some(<<nh.one, nh.two>>)]

push_front(s, data) ==
    LET nh == new_halves(s, data)
        one == nh.one
        two == nh.two
        s0 == [nh.st EXCEPT !.head_tail = None]
    IN  IF s.head_tail # None
        THEN LET head == s.head_tail[1][1]
                 tail == s.head_tail[1][2]
                 s1 == [s0 EXCEPT !.heap[head].prev = Some(one)]
                 s2 == [s1 EXCEPT !.heap[two].next = Some(head)]
             IN  [s2 EXCEPT !.head_tail = Some(<<two, tail>>)]
        ELSE [s0 EXCEPT !.head_tail = Some(<<one, two>>)]

\* Mutant of push_back: the old tail's next edge is never set, so one half
\* of the new node is dropped.
push_back_no_next(s, data) ==
    LET nh == new_halves(s, data)
        s0 == [nh.st EXCEPT !.head_tail = None]
    IN  IF s.head_tail # None
        THEN LET head == s.head_tail[1][1]
                 tail == s.head_tail[1][2]
                 s2 == [s0 EXCEPT !.heap[nh.two].prev = Some(tail)]
             IN  [s2 EXCEPT !.head_tail = Some(<<head, nh.two>>)]
        ELSE [s0 EXCEPT !.head_tail = Some(<<nh.one, nh.two>>)]

\* Mutant of push_back: the body of push_front, copied unchanged.
push_back_at_front(s, data) == push_front(s, data)

push_back(s, data) ==
    LET nh == new_halves(s, data)
        one == nh.one
        two == nh.two
        s0 == [nh.st EXCEPT !.head_tail = None]
    IN  IF s.head_tail # None
        THEN LET head == s.head_tail[1][1]
                 tail == s.head_tail[1][2]
                 s1 == [s0 EXCEPT !.heap[tail].next = Some(one)]
                 s2 == [s1 EXCEPT !.heap[two].prev = Some(tail)]
             IN  [s2 EXCEPT !.head_tail = Some(<<head, two>>)]
        ELSE [s0 EXCEPT !.head_tail = Some(<<one, two>>)]

\* The result of a pop: the state after it, the value returned and the
\* branch taken ("empty", "single", "multi" or "panic").
PopResult(r, branch) == [st |-> r.st, ret |-> r.ret,
                         branch |-> IF r.st.err # "" THEN "panic" ELSE branch]

\* Mutant of pop_front: the head/tail address comparison is missing, so a
\* single node is treated like the head of a longer list.
pop_front_no_single_check(s) ==
    IF s.head_tail = None
    THEN [st |-> s, ret |-> None, branch |-> "empty"]
    ELSE LET head == s.head_tail[1][1]
             tail == s.head_tail[1][2]
             s0 == [s EXCEPT !.head_tail = None]
             nx == s0.heap[head].next
             s1 == [s0 EXCEPT !.heap[head].next = None]
         IN  IF nx = None
             THEN PopResult([st |-> Panic(s1, "Non-tail should have a next node"),
                             ret |-> None], "panic")
             ELSE LET next == nx[1]
                      pv == s1.heap[next].prev
                      s2 == [s1 EXCEPT !.heap[next].prev = None]
                  IN  IF pv = None
                      THEN PopResult([st |-> Panic(s2, "Non-head should have a previous node"),
                                      ret |-> None], "panic")
                      ELSE LET s3 == [s2 EXCEPT !.head_tail = Some(<<next, tail>>)]
                           IN  PopResult(into_inner(s3, head, pv[1]), "multi")

\* Mutant of pop_front: the new head's prev half-share is copied for the
\* join instead of being taken, so the new head keeps an edge to the node
\* that is freed.
pop_front_keep_prev(s) ==
    IF s.head_tail = None
    THEN [st |-> s, ret |-> None, branch |-> "empty"]
    ELSE LET head == s.head_tail[1][1]
             tail == s.head_tail[1][2]
             s0 == [s EXCEPT !.head_tail = None]
         IN  IF head = tail
             THEN PopResult(into_inner(s0, head, tail), "single")
             ELSE LET nx == s0.heap[head].next
                      s1 == [s0 EXCEPT !.heap[head].next = None]
                  IN  IF nx = None
                      THEN PopResult([st |-> Panic(s1, "Non-tail should have a next node"),
                                      ret |-> None], "panic")
                      ELSE LET next == nx[1]
                               pv == s1.heap[next].prev
                           IN  IF pv = None
                               THEN PopResult([st |-> Panic(s1, "Non-head should have a previous node"),
                                               ret |-> None], "panic")
                               ELSE LET s3 == [s1 EXCEPT !.head_tail = Some(<<next, tail>>)]
                                    IN  PopResult(into_inner(s3, head, pv[1]), "multi")

pop_front(s) ==
    IF s.head_tail = None
    THEN [st |-> s, ret |-> None, branch |-> "empty"]
    ELSE LET head == s.head_tail[1][1]
             tail == s.head_tail[1][2]
             s0 == [s EXCEPT !.head_tail = None]
         IN  IF head = tail
             THEN PopResult(into_inner(s0, head, tail), "single")
             ELSE LET nx == s0.heap[head].next
                      s1 == [s0 EXCEPT !.heap[head].next = None]
                  IN  IF nx = None
                      THEN PopResult([st |-> Panic(s1, "Non-tail should have a next node"),
                                      ret |-> None], "panic")
                      ELSE LET next == nx[1]
                               pv == s1.heap[next].prev
                               s2 == [s1 EXCEPT !.heap[next].prev = None]
                           IN  IF pv = None
                               THEN PopResult([st |-> Panic(s2, "Non-head should have a previous node"),
                                               ret |-> None], "panic")
                               ELSE LET other_head == pv[1]
                                        s3 == [s2 EXCEPT !.head_tail = Some(<<next, tail>>)]
                                    IN  PopResult(into_inner(s3, head, other_head), "multi")

\* Mutant of pop_back: the anchors are unwrapped instead of being returned
\* early with ?, so an empty list panics.
pop_back_unwrap(s) ==
    IF s.head_tail = None
    THEN PopResult([st |-> Panic(s, "called Option::unwrap() on a None value"),
                    ret |-> None], "panic")
    ELSE LET head == s.head_tail[1][1]
             tail == s.head_tail[1][2]
             s0 == [s EXCEPT !.head_tail = None]
         IN  IF head = tail
             THEN PopResult(into_inner(s0, head, tail), "single")
             ELSE LET pv == s0.heap[tail].prev
                      s1 == [s0 EXCEPT !.heap[tail].prev = None]
                  IN  IF pv = None
                      THEN PopResult([st |-> Panic(s1, "Non-head should have a previous node"),
                                      ret |-> None], "panic")
                      ELSE LET prev == pv[1]
                               nx == s1.heap[prev].next
                               s2 == [s1 EXCEPT !.heap[prev].next = None]
                           IN  IF nx = None
                               THEN PopResult([st |-> Panic(s2, "Non-tail should have a next node"),
                                               ret |-> None], "panic")
                               ELSE LET s3 == [s2 EXCEPT !.head_tail = Some(<<head, prev>>)]
                                    IN  PopResult(into_inner(s3, tail, nx[1]), "multi")

\* Mutant of pop_back: the removed tail is joined with the half-share of its
\* predecessor (prev) instead of the half taken from the predecessor's next.
pop_back_join_prev(s) ==
    IF s.head_tail = None
    THEN [st |-> s, ret |-> None, branch |-> "empty"]
    ELSE LET head == s.head_tail[1][1]
             tail == s.head_tail[1][2]
             s0 == [s EXCEPT !.head_tail = None]
         IN  IF head = tail
             THEN PopResult(into_inner(s0, head, tail), "single")
             ELSE LET prev == s0.heap[tail].prev[1]
                      s2 == [s0 EXCEPT !.heap[tail].prev = None,
                                       !.heap[prev].next = None,
                                       !.head_tail = Some(<<head, prev>>)]
                  IN  PopResult(into_inner(s2, tail, prev), "multi")

\* Mutant of pop_back: the tail's prev half-share is read without being
\* taken out of the tail, so the tail is destroyed while it still holds it.
pop_back_keep_node_prev(s) ==
    IF s.head_tail = None
    THEN [st |-> s, ret |-> None, branch |-> "empty"]
    ELSE LET head == s.head_tail[1][1]
             tail == s.head_tail[1][2]
             s0 == [s EXCEPT !.head_tail = None]
         IN  IF head = tail
             THEN PopResult(into_inner(s0, head, tail), "single")
             ELSE LET pv == s0.heap[tail].prev
                  IN  IF pv = None
                      THEN PopResult([st |-> Panic(s0, "Non-head should have a previous node"),
                                      ret |-> None], "panic")
                      ELSE LET prev == pv[1]
                               nx == s0.heap[prev].next
                               s2 == [s0 EXCEPT !.heap[prev].next = None]
                           IN  IF nx = None
                               THEN PopResult([st |-> Panic(s2, "Non-tail should have a next node"),
                                               ret |-> None], "panic")
                               ELSE LET s3 == [s2 EXCEPT !.head_tail = Some(<<head, prev>>)]
                                    IN  PopResult(into_inner(s3, tail, nx[1]), "multi")

pop_back(s) ==
    IF s.head_tail = None
    THEN [st |-> s, ret |-> None, branch |-> "empty"]
    ELSE LET head == s.head_tail[1][1]
             tail == s.head_tail[1][2]
             s0 == [s EXCEPT !.head_tail = None]
         IN  IF head = tail
             THEN PopResult(into_inner(s0, head, tail), "single")
             ELSE LET pv == s0.heap[tail].prev
                      s1 == [s0 EXCEPT !.heap[tail].prev = None]
                  IN  IF pv = None
                      THEN PopResult([st |-> Panic(s1, "Non-head should have a previous node"),
                                      ret |-> None], "panic")
                      ELSE LET prev == pv[1]
                               nx == s1.heap[prev].next
                               s2 == [s1 EXCEPT !.heap[prev].next = None]
                           IN  IF nx = None
                               THEN PopResult([st |-> Panic(s2, "Non-tail should have a next node"),
                                               ret |-> None], "panic")
                               ELSE LET other_tail == nx[1]
                                        s3 == [s2 EXCEPT !.head_tail = Some(<<head, prev>>)]
                                    IN  PopResult(into_inner(s3, tail, other_tail), "multi")

\* clear: while let Some(_) = self.pop_back(token) {}.  popped lists the
\* payloads of the successful pops, calls counts every pop_back made.
RECURSIVE clear_loop(_, _, _)
clear_loop(s, popped, calls) ==
    LET r == pop_back(s)
    IN  IF r.ret # None
        THEN clear_loop(r.st, Append(popped, r.ret[1]), calls + 1)
        ELSE [st |-> r.st, popped |-> popped, calls |-> calls + 1]

\* Mutant of clear: the loop pops from the front.
RECURSIVE clear_from_front_loop(_, _, _)
clear_from_front_loop(s, popped, calls) ==
    LET r == pop_front(s)
    IN  IF r.ret # None
        THEN clear_from_front_loop(r.st, Append(popped, r.ret[1]), calls + 1)
        ELSE [st |-> r.st, popped |-> popped, calls |-> calls + 1]

clear_from_front(s) == clear_from_front_loop(s, <<>>, 0)

\* Mutant of clear: if-let instead of while-let, a single pop_back.
clear_once(s) ==
    LET r == pop_back(s)
    IN  [st |-> r.st, popped |-> r.ret, calls |-> 1]

clear(s) == clear_loop(s, <<>>, 0)

is_empty(s) == s.head_tail = None

front(s) == IF s.head_tail = None THEN None
            ELSE Some(s.heap[s.head_tail[1][1]].data)

\* Mutant of back: the closure of front, which reads the head anchor.
back_reads_head(s) == IF s.head_tail = None THEN None
                      ELSE Some(s.heap[s.head_tail[1][1]].data)

back(s) == IF s.head_tail = None THEN None
           ELSE Some(s.heap[s.head_tail[1][2]].data)

\* front_mut / back_mut return Option<&mut T>; the caller writes data
\* through the reference when it is Some.
\* Mutant of front_mut: the closure of back_mut, which borrows the tail.
front_mut_at_tail(s, data) ==
    IF s.head_tail = None THEN [st |-> s, ret |-> None]
    ELSE LET tail == s.head_tail[1][2]
         IN  [st |-> [s EXCEPT !.heap[tail].data = data], ret |-> Some(tail)]

front_mut(s, data) ==
    IF s.head_tail = None THEN [st |-> s, ret |-> None]
    ELSE LET head == s.head_tail[1][1]
         IN  [st |-> [s EXCEPT !.heap[head].data = data], ret |-> Some(head)]

back_mut(s, data) ==
    IF s.head_tail = None THEN [st |-> s, ret |-> None]
    ELSE LET tail == s.head_tail[1][2]
         IN  [st |-> [s EXCEPT !.heap[tail].data = data], ret |-> Some(tail)]

\* iter: the cursor pair (references to the head and tail nodes), or None.
iter(s) == [head_tail |-> s.head_tail]

\* Mutant of next: the cursor follows the prev edge, as next_back does.
next_follows_prev(i, s) ==
    IF i.head_tail # None
    THEN LET head == i.head_tail[1][1]
             tail == i.head_tail[1][2]
             node == s.heap[head]
         IN  [it |-> [head_tail |-> IF node.prev = None THEN None
                                    ELSE Some(<<node.prev[1], tail>>)],
              ret |-> Some(node.data), elem |-> Some(head)]
    ELSE [it |-> [head_tail |-> None], ret |-> None, elem |-> None]

\* Mutant of next: an exhausted cursor starts over at the head of the list.
next_starts_over(i, s) ==
    IF i.head_tail # None
    THEN LET head == i.head_tail[1][1]
             tail == i.head_tail[1][2]
             node == s.heap[head]
         IN  [it |-> [head_tail |-> IF node.next = None THEN None
                                    ELSE Some(<<node.next[1], tail>>)],
              ret |-> Some(node.data), elem |-> Some(head)]
    ELSE IF s.head_tail # None
    THEN LET head == s.head_tail[1][1]
         IN  [it |-> [head_tail |-> None],
              ret |-> Some(s.heap[head].data), elem |-> Some(head)]
    ELSE [it |-> [head_tail |-> None], ret |-> None, elem |-> None]

\* Iterator::next: yields the data of the cursor's head and moves the head
\* cursor to that node's next edge; the cursor becomes None when the node
\* has no next edge.  elem is the address of the node whose data is yielded.
next(i, s) ==
    IF i.head_tail # None
    THEN LET head == i.head_tail[1][1]
             tail == i.head_tail[1][2]
             node == s.heap[head]
         IN  [it |-> [head_tail |-> IF node.next = None THEN None
                                    ELSE Some(<<node.next[1], tail>>)],
              ret |-> Some(node.data), elem |-> Some(head)]
    ELSE [it |-> [head_tail |-> None], ret |-> None, elem |-> None]

\* DoubleEndedIterator::next_back, the mirror image on the tail cursor.
next_back(i, s) ==
    IF i.head_tail # None
    THEN LET head == i.head_tail[1][1]
             tail == i.head_tail[1][2]
             node == s.heap[tail]
         IN  [it |-> [head_tail |-> IF node.prev = None THEN None
                                    ELSE Some(<<head, node.prev[1]>>)],
              ret |-> Some(node.data), elem |-> Some(tail)]
    ELSE [it |-> [head_tail |-> None], ret |-> None, elem |-> None]

\* Iterator::count: calls next() until it returns None.  A traversal that
\* yields more nodes than were ever allocated revisits a node and therefore
\* never ends; it is reported as -1.
RECURSIVE count(_, _, _)
count(i, s, n) ==
    LET r == next(i, s)
    IN  IF r.ret = None THEN n
        ELSE IF n >= Len(s.heap) THEN -1
        ELSE count(r.it, s, n + 1)

len(s) == count(iter(s), s, 0)

----------------------------------------------------------------------------
\* The program: a caller that owns one list and one token and applies the
\* public operations in any order.  A panic ends the run.

NoIter == [active |-> FALSE, head_tail |-> None, yielded |-> <<>>,
           ended |-> FALSE, again |-> FALSE]

\* ended: a call on this iterator has returned None; again: the last call
\* was made after that.
\* yielded[a] counts how often the iterator yielded the element of node a.
NoneYielded(s) == [a \in 1..Len(s.heap) |-> 0]
Yield(y, elem) == IF elem = None THEN y ELSE [y EXCEPT ![elem[1]] = @ + 1]

Init ==
    /\ head_tail = None
    /\ heap = <<>>
    /\ frees = <<>>
    /\ err = ""
    /\ joins = <<>>
    /\ deque = <<>>
    /\ nPush = 0
    /\ nPopSome = 0
    /\ last = [op |-> "new", ret |-> None, ref |-> None, branch |-> ""]
    /\ it = NoIter
    /\ owned = TRUE

Install(s) ==
    /\ head_tail' = s.head_tail
    /\ heap' = s.heap
    /\ frees' = s.frees
    /\ err' = s.err
    /\ joins' = s.joins

\* Reference deque operations.
RefPopFront(q) == IF q = <<>> THEN <<>> ELSE Tail(q)
RefPopBack(q) == IF q = <<>> THEN <<>> ELSE SubSeq(q, 1, Len(q) - 1)
RefFront(q) == IF q = <<>> THEN None ELSE Some(q[1])
RefBack(q) == IF q = <<>> THEN None ELSE Some(q[Len(q)])
Reverse(q) == [i \in 1..Len(q) |-> q[Len(q) + 1 - i]]

\* A mutating operation borrows the list and the token exclusively, which
\* ends the borrow an iterator holds.
PushFront(d) ==
    /\ err = ""
    /\ owned
    /\ UNCHANGED owned
    /\ Len(heap) < MaxAllocs
    /\ Install(push_front(Cur, d))
    /\ deque' = <<d>> \o deque
    /\ nPush' = nPush + 1
    /\ last' = [op |-> "push_front", ret |-> None, ref |-> None, branch |-> ""]
    /\ it' = NoIter
    /\ UNCHANGED nPopSome

PushBack(d) ==
    /\ err = ""
    /\ owned
    /\ UNCHANGED owned
    /\ Len(heap) < MaxAllocs
    /\ Install(push_back(Cur, d))
    /\ deque' = Append(deque, d)
    /\ nPush' = nPush + 1
    /\ last' = [op |-> "push_back", ret |-> None, ref |-> None, branch |-> ""]
    /\ it' = NoIter
    /\ UNCHANGED nPopSome

PopFront ==
    /\ err = ""
    /\ owned
    /\ UNCHANGED owned
    /\ LET r == pop_front(Cur)
       IN  /\ Install(r.st)
           /\ nPopSome' = IF r.ret # None THEN nPopSome + 1 ELSE nPopSome
           /\ last' = [op |-> "pop_front", ret |-> r.ret,
                       ref |-> RefFront(deque), branch |-> r.branch]
    /\ deque' = RefPopFront(deque)
    /\ it' = NoIter
    /\ UNCHANGED nPush

PopBack ==
    /\ err = ""
    /\ owned
    /\ UNCHANGED owned
    /\ LET r == pop_back(Cur)
       IN  /\ Install(r.st)
           /\ nPopSome' = IF r.ret # None THEN nPopSome + 1 ELSE nPopSome
           /\ last' = [op |-> "pop_back", ret |-> r.ret,
                       ref |-> RefBack(deque), branch |-> r.branch]
    /\ deque' = RefPopBack(deque)
    /\ it' = NoIter
    /\ UNCHANGED nPush

Clear ==
    /\ err = ""
    /\ owned
    /\ UNCHANGED owned
    /\ LET r == clear(Cur)
       IN  /\ Install(r.st)
           /\ nPopSome' = nPopSome + Len(r.popped)
           /\ last' = [op |-> "clear", ret |-> r.popped,
                       ref |-> Reverse(deque), branch |-> ""]
    /\ deque' = <<>>
    /\ it' = NoIter
    /\ UNCHANGED nPush

FrontMut(d) ==
    /\ err = ""
    /\ owned
    /\ UNCHANGED owned
    /\ LET r == front_mut(Cur, d)
       IN  /\ Install(r.st)
           /\ last' = [op |-> "front_mut", ret |-> r.ret, ref |-> None, branch |-> ""]
    /\ deque' = IF deque = <<>> THEN deque ELSE [deque EXCEPT ![1] = d]
    /\ it' = NoIter
    /\ UNCHANGED <<nPush, nPopSome>>

BackMut(d) ==
    /\ err = ""
    /\ owned
    /\ UNCHANGED owned
    /\ LET r == back_mut(Cur, d)
       IN  /\ Install(r.st)
           /\ last' = [op |-> "back_mut", ret |-> r.ret, ref |-> None, branch |-> ""]
    /\ deque' = IF deque = <<>> THEN deque ELSE [deque EXCEPT ![Len(deque)] = d]
    /\ it' = NoIter
    /\ UNCHANGED <<nPush, nPopSome>>

\* Read-only operations borrow the list and the token shared.  They change
\* nothing but the record of the last operation, so interleaving them with
\* the steps of a live iterator adds no behaviour of the list or of the
\* iterator: they are taken while no iterator is live.
Front ==
    /\ err = ""
    /\ owned
    /\ UNCHANGED owned
    /\ ~it.active
    /\ last' = [op |-> "front", ret |-> front(Cur), ref |-> RefFront(deque),
                branch |-> ""]
    /\ UNCHANGED <<head_tail, heap, frees, err, joins, deque, nPush, nPopSome, it>>

Back ==
    /\ err = ""
    /\ owned
    /\ UNCHANGED owned
    /\ ~it.active
    /\ last' = [op |-> "back", ret |-> back(Cur), ref |-> RefBack(deque),
                branch |-> ""]
    /\ UNCHANGED <<head_tail, heap, frees, err, joins, deque, nPush, nPopSome, it>>

IsEmpty ==
    /\ err = ""
    /\ owned
    /\ UNCHANGED owned
    /\ ~it.active
    /\ last' = [op |-> "is_empty", ret |-> is_empty(Cur), ref |-> (deque = <<>>),
                branch |-> ""]
    /\ UNCHANGED <<head_tail, heap, frees, err, joins, deque, nPush, nPopSome, it>>

LenOp ==
    /\ err = ""
    /\ owned
    /\ UNCHANGED owned
    /\ ~it.active
    /\ last' = [op |-> "len", ret |-> len(Cur), ref |-> Len(deque),
                branch |-> ""]
    /\ UNCHANGED <<head_tail, heap, frees, err, joins, deque, nPush, nPopSome, it>>

Iter ==
    /\ err = ""
    /\ owned
    /\ UNCHANGED owned
    /\ it' = [active |-> TRUE, head_tail |-> iter(Cur).head_tail,
              yielded |-> NoneYielded(Cur), ended |-> FALSE,
              again |-> FALSE]
    /\ last' = [op |-> "iter", ret |-> None, ref |-> None, branch |-> ""]
    /\ UNCHANGED <<head_tail, heap, frees, err, joins, deque, nPush, nPopSome>>

\* Mutant of IterNext: a step that takes the next edge out of the node it
\* yields instead of borrowing it.
IterNext_take ==
    /\ err = ""
    /\ owned
    /\ UNCHANGED owned
    /\ it.active
    /\ LET r == next([head_tail |-> it.head_tail], Cur)
       IN  /\ it' = [active |-> TRUE, head_tail |-> r.it.head_tail,
                     yielded |-> Yield(it.yielded, r.elem),
                     ended |-> it.ended \/ r.ret = None,
                     again |-> it.ended]
           /\ last' = [op |-> "next", ret |-> r.ret, ref |-> None, branch |-> ""]
           /\ heap' = IF r.elem = None THEN heap
                      ELSE [heap EXCEPT ![r.elem[1]].next = None]
    /\ UNCHANGED <<head_tail, frees, err, joins, deque, nPush, nPopSome>>

IterNext ==
    /\ err = ""
    /\ owned
    /\ UNCHANGED owned
    /\ it.active
    /\ LET r == next([head_tail |-> it.head_tail], Cur)
       IN  /\ it' = [active |-> TRUE, head_tail |-> r.it.head_tail,
                     yielded |-> Yield(it.yielded, r.elem),
                     ended |-> it.ended \/ r.ret = None,
                     again |-> it.ended]
           /\ last' = [op |-> "next", ret |-> r.ret, ref |-> None, branch |-> ""]
    /\ UNCHANGED <<head_tail, heap, frees, err, joins, deque, nPush, nPopSome>>

IterNextBack ==
    /\ err = ""
    /\ owned
    /\ UNCHANGED owned
    /\ it.active
    /\ LET r == next_back([head_tail |-> it.head_tail], Cur)
       IN  /\ it' = [active |-> TRUE, head_tail |-> r.it.head_tail,
                     yielded |-> Yield(it.yielded, r.elem),
                     ended |-> it.ended \/ r.ret = None,
                     again |-> it.ended]
           /\ last' = [op |-> "next_back", ret |-> r.ret, ref |-> None, branch |-> ""]
    /\ UNCHANGED <<head_tail, heap, frees, err, joins, deque, nPush, nPopSome>>

\* The caller lets go of the list.  GhostLinkedList has no Drop impl and
\* no operation hands it its token at that point, so no node is popped:
\* the two anchor half-shares are dropped as they are, a half-share that
\* is dropped releases nothing, and the heap keeps every node of the chain.
\* The contents of head_tail stay in the model to name the abandoned chain.
DropList ==
    /\ err = ""
    /\ owned
    /\ owned' = FALSE
    /\ last' = [op |-> "drop", ret |-> None, ref |-> None, branch |-> ""]
    /\ it' = NoIter
    /\ UNCHANGED <<head_tail, heap, frees, err, joins, deque, nPush, nPopSome>>

Next ==
    \/ \E d \in Data : PushFront(d)
    \/ \E d \in Data : PushBack(d)
    \/ PopFront
    \/ PopBack
    \/ Clear
    \/ \E d \in Data : FrontMut(d)
    \/ \E d \in Data : BackMut(d)
    \/ Front
    \/ Back
    \/ IsEmpty
    \/ LenOp
    \/ Iter
    \/ IterNext
    \/ IterNextBack
    \/ DropList

Spec == Init /\ [][Next]_vars

----------------------------------------------------------------------------
\* Properties.

Pops == {"pop_front", "pop_back"}

\* C1: every pop_front / pop_back returns exactly what the reference deque,
\* driven by the same operations, returns for it: Some(front/back element),
\* or None when the reference deque is empty.
C1_PopsMatchReferenceDeque ==
    last.op \in Pops => last.ret = last.ref

\* A second pop has returned a value and left one element of three.
C1_Witness ==
    /\ last.op \in Pops
    /\ last.ret # None
    /\ Len(deque) = 1
    /\ nPopSome = 2

\* C2: len() is the number of pushes minus the number of pops that returned
\* Some, and is_empty() is true exactly when that number is 0.
C2_LenIsPushesMinusPops ==
    err = "" =>
        /\ len(Cur) = nPush - nPopSome
        /\ is_empty(Cur) <=> (nPush - nPopSome = 0)

C2_Witness ==
    /\ err = ""
    /\ nPush - nPopSome = 2
    /\ nPopSome >= 1
    /\ len(Cur) = 2

\* The allocations freed so far.
Freed == {a \in 1..Len(heap) : frees[a] > 0}

\* What a pop does to the allocation a whose payload it returns: one join of
\* two half-shares of a, and one free of a.
FreesReturnedNode(r, a) ==
    /\ r.ret = Some(heap[a].data)
    /\ r.st.joins = << <<a, a>> >>
    /\ r.st.frees = [frees EXCEPT ![a] = 1]

\* C3: every node allocation is freed exactly once, by the pop (or clear
\* step) that returns its payload, when its two half-shares are rejoined; no
\* allocation is freed twice, and once every pushed node has been popped no
\* allocation remains live.
C3_FreedExactlyOnceOnRejoin ==
    err = "" =>
        /\ \A a \in 1..Len(heap) : frees[a] <= 1
        /\ Cardinality(Freed) = nPopSome
        /\ \A i \in 1..Len(joins) : joins[i][1] \in Freed
        /\ (last.op \in Pops /\ last.ret # None) => Len(joins) = 1
        /\ last.op = "clear" => Len(joins) = Len(last.ret)
        /\ head_tail # None =>
              /\ FreesReturnedNode(pop_front(Cur), head_tail[1][1])
              /\ FreesReturnedNode(pop_back(Cur), head_tail[1][2])
        /\ nPopSome = nPush => LiveSet(Cur) = {}

C3_Witness ==
    /\ err = ""
    /\ nPush >= 3
    /\ nPopSome = nPush
    /\ last.op \in Pops
    /\ LiveSet(Cur) = {}

\* The half-shares of node a outstanding on its head side (the head anchor,
\* or the next slot of a live node) and on its tail side (the tail anchor, or
\* the prev slot of a live node).
HeadSideHolders(a) ==
    (IF head_tail # None /\ head_tail[1][1] = a THEN 1 ELSE 0)
    + Cardinality({b \in LiveSet(Cur) : heap[b].next = Some(a)})

TailSideHolders(a) ==
    (IF head_tail # None /\ head_tail[1][2] = a THEN 1 ELSE 0)
    + Cardinality({b \in LiveSet(Cur) : heap[b].prev = Some(a)})

\* C4: between operations every live node has exactly two outstanding
\* half-shares: one held by the head anchor or by a predecessor's next slot,
\* and one held by the tail anchor or by a successor's prev slot.
C4_TwoHalfSharesPerLiveNode ==
    err = "" =>
        \A a \in LiveSet(Cur) :
            /\ HeadSideHolders(a) = 1
            /\ TailSideHolders(a) = 1

\* Three live nodes after a push at each end of a one-node list: the first
\* node is in the middle, held by its two neighbours only.
C4_Witness ==
    /\ err = ""
    /\ LiveSet(Cur) = {1, 2, 3}
    /\ head_tail[1][1] # 1
    /\ head_tail[1][2] # 1
    /\ heap[1].prev # None
    /\ heap[1].next # None

\* C5: every join performed by pop_front, pop_back or clear is applied to two
\* half-shares of the same node allocation, in the single-node branch and in
\* the multi-node branch.
C5_JoinsSameAllocation ==
    /\ err # "join: not the same allocation"
    /\ \A i \in 1..Len(joins) : joins[i][1] = joins[i][2]
    /\ err = "" =>
          /\ \A i \in 1..Len(pop_front(Cur).st.joins) :
                pop_front(Cur).st.joins[i][1] = pop_front(Cur).st.joins[i][2]
          /\ \A i \in 1..Len(pop_back(Cur).st.joins) :
                pop_back(Cur).st.joins[i][1] = pop_back(Cur).st.joins[i][2]

\* A clear of three nodes has joined in the multi-node branch twice and in
\* the single-node branch once.
C5_Witness ==
    /\ last.op = "clear"
    /\ Len(joins) = 3

\* C6: no sequence of public operations makes pop_front or pop_back abort
\* with "Non-tail should have a next node" or "Non-head should have a
\* previous node": whenever head and tail are different nodes, each end node
\* has its inward edge and the neighbour has its edge back to that end node.
C6_NoBookkeepingPanic ==
    /\ err \notin {"Non-tail should have a next node",
                   "Non-head should have a previous node"}
    /\ (err = "" /\ head_tail # None /\ head_tail[1][1] # head_tail[1][2]) =>
          LET head == head_tail[1][1]
              tail == head_tail[1][2]
          IN  /\ heap[head].next # None
              /\ heap[heap[head].next[1]].prev = Some(head)
              /\ heap[tail].prev # None
              /\ heap[heap[tail].prev[1]].next = Some(tail)
              /\ pop_front(Cur).branch = "multi"
              /\ pop_back(Cur).branch = "multi"

\* A pop_front has removed the head of a three-node list through the
\* multi-node branch.
C6_Witness ==
    /\ last.op = "pop_front"
    /\ last.branch = "multi"
    /\ Len(deque) = 2
    /\ err = ""

\* A push on an empty list: both halves of the new allocation become the
\* anchors of a one-element list holding d.
PushedOnFresh(s, d) ==
    LET a == Len(heap) + 1
    IN  /\ s.err = ""
        /\ s.head_tail = Some(<<a, a>>)
        /\ s.heap[a] = [data |-> d, prev |-> None, next |-> None]
        /\ front(s) = Some(d)
        /\ back(s) = Some(d)
        /\ len(s) = 1

\* C7: on an empty list pop_front, pop_back, front, front_mut, back and
\* back_mut each return None without a panic and leave the list empty, and
\* a following push behaves as on a fresh list.
C7_EmptyListReturnsNone ==
    /\ (err = "" /\ head_tail = None) =>
          /\ pop_front(Cur) = [st |-> Cur, ret |-> None, branch |-> "empty"]
          /\ pop_back(Cur) = [st |-> Cur, ret |-> None, branch |-> "empty"]
          /\ front(Cur) = None
          /\ back(Cur) = None
          /\ \A d \in Data :
                /\ front_mut(Cur, d) = [st |-> Cur, ret |-> None]
                /\ back_mut(Cur, d) = [st |-> Cur, ret |-> None]
                /\ PushedOnFresh(push_front(pop_front(Cur).st, d), d)
                /\ PushedOnFresh(push_back(pop_back(Cur).st, d), d)
                /\ PushedOnFresh(push_back(front_mut(Cur, d).st, d), d)
                /\ PushedOnFresh(push_front(back_mut(Cur, d).st, d), d)
    /\ (last.op \in Pops /\ last.branch = "empty") =>
          /\ last.ret = None
          /\ head_tail = None
          /\ err = ""

\* A pop_back was made on a list emptied by earlier pops and returned None.
C7_Witness ==
    /\ last.op = "pop_back"
    /\ last.branch = "empty"
    /\ last.ret = None
    /\ nPush >= 1
    /\ head_tail = None

\* C8: after clear on a list in any reachable state, is_empty() is true,
\* pop_front and pop_back return None, and a second clear leaves the list in
\* the same empty state.
C8_ClearEmptiesAndIsIdempotent ==
    /\ err = "" =>
          LET c == [clear(Cur).st EXCEPT !.joins = <<>>]
          IN  /\ c.err = ""
              /\ is_empty(c)
              /\ pop_front(c).ret = None
              /\ pop_back(c).ret = None
              /\ clear(c).st = c
              /\ clear(c).popped = <<>>
    /\ last.op = "clear" => (err = "" /\ is_empty(Cur))

\* A clear has emptied a list of at least two elements.
C8_Witness ==
    /\ last.op = "clear"
    /\ Len(last.ret) >= 2
    /\ is_empty(Cur)
    /\ LiveSet(Cur) = {}

\* C9: the head and tail anchors compare equal exactly when the list holds
\* one node; there pop_front and pop_back take the single-node branch (one
\* join of the two anchors), return that node's payload and leave the list
\* empty; on two or more nodes the anchors compare unequal.
C9_AnchorsEqualIffSingleNode ==
    /\ (err = "" /\ head_tail # None) =>
          LET head == head_tail[1][1]
              tail == head_tail[1][2]
          IN  /\ (head = tail) <=> (Len(deque) = 1)
              /\ (head = tail) <=> (Cardinality(LiveSet(Cur)) = 1)
              /\ head = tail =>
                    /\ pop_front(Cur).branch = "single"
                    /\ pop_front(Cur).ret = Some(deque[1])
                    /\ pop_front(Cur).st.joins = << <<head, tail>> >>
                    /\ pop_front(Cur).st.head_tail = None
                    /\ pop_back(Cur).branch = "single"
                    /\ pop_back(Cur).ret = Some(deque[1])
                    /\ pop_back(Cur).st.joins = << <<head, tail>> >>
                    /\ pop_back(Cur).st.head_tail = None
    /\ (err = "" /\ Len(deque) >= 2) => head_tail # None
    /\ last.branch = "single" => (head_tail = None /\ deque = <<>>)

\* The last node of a list that held several nodes was popped through the
\* single-node branch.
C9_Witness ==
    /\ last.op = "pop_back"
    /\ last.branch = "single"
    /\ last.ret # None
    /\ nPush >= 2
    /\ head_tail = None

RECURSIVE SumSeq(_)
SumSeq(q) == IF q = <<>> THEN 0 ELSE Head(q) + SumSeq(Tail(q))

\* C10: for any interleaving of next() and next_back() on an iterator over n
\* elements, every element is yielded at most once, exactly n elements are
\* yielded in total, and all later calls return None.
C10_EachElementYieldedOnce ==
    it.active =>
        /\ \A a \in DOMAIN it.yielded : it.yielded[a] <= 1
        /\ SumSeq(it.yielded) <= Len(deque)
        /\ it.ended => (SumSeq(it.yielded) = Len(deque) /\ it.head_tail = None)

\* A full traversal by a fresh iterator: next() (or next_back()) is called
\* until it returns None.  elems lists the nodes whose data was yielded and
\* data the values, in the order of the calls.  A traversal that yields more
\* nodes than were ever allocated revisits a node and never ends: ended is
\* then FALSE.
RECURSIVE ForwardFrom(_, _, _, _)
ForwardFrom(i, s, elems, data) ==
    LET r == next(i, s)
    IN  IF r.ret = None
        THEN [elems |-> elems, data |-> data, ended |-> TRUE]
        ELSE IF Len(elems) >= Len(s.heap)
        THEN [elems |-> elems, data |-> data, ended |-> FALSE]
        ELSE ForwardFrom(r.it, s, elems \o r.elem, data \o r.ret)

RECURSIVE BackwardFrom(_, _, _, _)
BackwardFrom(i, s, elems, data) ==
    LET r == next_back(i, s)
    IN  IF r.ret = None
        THEN [elems |-> elems, data |-> data, ended |-> TRUE]
        ELSE IF Len(elems) >= Len(s.heap)
        THEN [elems |-> elems, data |-> data, ended |-> FALSE]
        ELSE BackwardFrom(r.it, s, elems \o r.elem, data \o r.ret)

Forward(s) == ForwardFrom(iter(s), s, <<>>, <<>>)
Backward(s) == BackwardFrom(iter(s), s, <<>>, <<>>)

NoRepeat(q) == \A i, j \in 1..Len(q) : q[i] = q[j] => i = j

\* C11: after any sequence of operations a forward traversal (next() on a
\* fresh iterator until None) terminates after visiting exactly len() nodes,
\* visits no node twice, and yields the elements in the front-to-back order
\* of the reference deque.
C11_ForwardTraversalMatchesDeque ==
    err = "" =>
        LET f == Forward(Cur)
        IN  /\ f.ended
            /\ Len(f.elems) = len(Cur)
            /\ Len(f.elems) = Len(deque)
            /\ NoRepeat(f.elems)
            /\ f.data = deque

\* An iterator over a three-element list, built by pushes at both ends, has
\* yielded every node once through next() and then returned None.
C11_Witness ==
    /\ err = ""
    /\ it.active
    /\ it.ended
    /\ last.op = "next"
    /\ Len(deque) = 3
    /\ Forward(Cur).elems \notin {<<1, 2, 3>>, <<3, 2, 1>>}
    /\ \A a \in 1..3 : it.yielded[a] = 1

\* C12: the sequence of a full forward iteration and the sequence of a full
\* reverse iteration over the same unchanged list are exact reverses of one
\* another.
C12_ForwardIsReverseOfBackward ==
    err = "" =>
        LET f == Forward(Cur)
            b == Backward(Cur)
        IN  /\ f.ended
            /\ b.ended
            /\ b.data = Reverse(f.data)
            /\ b.elems = Reverse(f.elems)

\* A reverse iteration over three elements whose ends differ has completed.
C12_Witness ==
    /\ err = ""
    /\ it.active
    /\ it.ended
    /\ last.op = "next_back"
    /\ Len(Backward(Cur).data) = 3
    /\ deque[1] # deque[3]
    /\ \A a \in 1..3 : it.yielded[a] = 1

\* The payload sequences of length 1..n.
Payloads(n) == UNION {[1..k -> Data] : k \in 1..n}

\* push_back (push_front) applied to each element of q in turn.
RECURSIVE PushBackAll(_, _)
PushBackAll(s, q) ==
    IF q = <<>> THEN s ELSE PushBackAll(push_back(s, Head(q)), Tail(q))

RECURSIVE PushFrontAll(_, _)
PushFrontAll(s, q) ==
    IF q = <<>> THEN s ELSE PushFrontAll(push_front(s, Head(q)), Tail(q))

\* pop_front (pop_back) applied n times: the values returned, in order, and
\* the state reached.
RECURSIVE PopFrontN(_, _, _)
PopFrontN(s, n, rets) ==
    IF n = 0 THEN [st |-> s, rets |-> rets]
    ELSE LET r == pop_front(s) IN PopFrontN(r.st, n - 1, Append(rets, r.ret))

RECURSIVE PopBackN(_, _, _)
PopBackN(s, n, rets) ==
    IF n = 0 THEN [st |-> s, rets |-> rets]
    ELSE LET r == pop_back(s) IN PopBackN(r.st, n - 1, Append(rets, r.ret))

Somes(q) == [i \in 1..Len(q) |-> Some(q[i])]

RoundTrip(r, expected) ==
    /\ r.rets = Somes(expected)
    /\ r.st.err = ""
    /\ is_empty(r.st)
    /\ LiveSet(r.st) = LiveSet(Cur)

\* C13: N push_back then N pop_front return the elements in insertion order,
\* N push_front then N pop_front return them in reverse insertion order, the
\* list is empty afterwards, and symmetrically for pop_back.  The pushes
\* start on an empty list that its caller holds and no iterator borrows,
\* as push_back and push_front take the list by &mut self.
C13_PushPopRoundTrip ==
    (err = "" /\ head_tail = None /\ owned /\ ~it.active) =>
        \A q \in Payloads(MaxAllocs) :
            LET n == Len(q)
                b == PushBackAll(Cur, q)
                f == PushFrontAll(Cur, q)
            IN  /\ RoundTrip(PopFrontN(b, n, <<>>), q)
                /\ RoundTrip(PopFrontN(f, n, <<>>), Reverse(q))
                /\ RoundTrip(PopBackN(f, n, <<>>), q)
                /\ RoundTrip(PopBackN(b, n, <<>>), Reverse(q))

\* Three pushes followed by three successful pops, the last one a pop_front,
\* have emptied the list.
C13_Witness ==
    /\ err = ""
    /\ nPush = 3
    /\ nPopSome = 3
    /\ last.op = "pop_front"
    /\ last.branch = "single"
    /\ is_empty(Cur)

\* C14: in every non-empty state front() returns the first and back() the
\* last element of the reference deque; on a one-element list both refer to
\* the same element, so a write through front_mut is observed by back().
C14_FrontAndBackMatchDeque ==
    /\ last.op \in {"front", "back"} => last.ret = last.ref
    /\ (err = "" /\ head_tail # None) =>
          /\ front(Cur) = Some(deque[1])
          /\ back(Cur) = Some(deque[Len(deque)])
          /\ ~is_empty(Cur)
          /\ Len(deque) = 1 =>
                \A d \in Data :
                    /\ front_mut(Cur, d).ret = back_mut(Cur, d).ret
                    /\ back(front_mut(Cur, d).st) = Some(d)
                    /\ front(back_mut(Cur, d).st) = Some(d)

\* back() was called on a list whose last element differs from its first.
C14_Witness ==
    /\ err = ""
    /\ last.op = "back"
    /\ Len(deque) >= 2
    /\ last.ret = Some(deque[Len(deque)])
    /\ last.ret # front(Cur)

ReadOnlyOps == {"iter", "next", "next_back", "len", "is_empty", "front", "back"}

\* C15: a step of a read-only operation (iter, one next or next_back step,
\* len, is_empty, front, back) leaves the anchors, every edge and payload
\* of every node and the set of live nodes as they were, and performs no
\* allocation, join or free.
C15_ReadOnlyOpsPreserveList ==
    [][last'.op \in ReadOnlyOps =>
          /\ head_tail' = head_tail
          /\ heap' = heap
          /\ LiveSet([head_tail |-> head_tail', heap |-> heap',
                      frees |-> frees', err |-> err', joins |-> joins'])
                = LiveSet(Cur)
          /\ Len(heap') = Len(heap)
          /\ frees' = frees
          /\ joins' = joins
          /\ err' = err]_vars

\* An iterator has yielded from both ends of a list of three nodes.
C15_Witness ==
    /\ err = ""
    /\ it.active
    /\ last.op = "next_back"
    /\ last.ret # None
    /\ Len(deque) = 3
    /\ it.yielded[1] + it.yielded[2] + it.yielded[3] = 2
    /\ LiveSet(Cur) = {1, 2, 3}

\* Every half-share an operation can start from: the two anchors, the prev
\* and next slots of the live nodes, and the cursors of a live iterator.
HeldHalves(s, i) ==
    (IF s.head_tail = None THEN {} ELSE {s.head_tail[1][1], s.head_tail[1][2]})
    \cup UNION {{s.heap[a].prev[k] : k \in DOMAIN s.heap[a].prev}
                \cup {s.heap[a].next[k] : k \in DOMAIN s.heap[a].next}
                : a \in LiveSet(s)}
    \cup (IF i.active /\ i.head_tail # None
          THEN {i.head_tail[1][1], i.head_tail[1][2]} ELSE {})

\* C17: no half-share that an operation can follow addresses a freed
\* allocation, and a freed allocation is never written again (no
\* use-after-free); and a list that is let go while it is not empty frees
\* nothing: its nodes are never rejoined and their allocations stay live.
C17_NoUseAfterFreeAndAbandonLeaks ==
    /\ err = "" => \A a \in HeldHalves(Cur, it) : Live(Cur, a)
    /\ \A a \in 1..Len(heap) : frees[a] > 0 => heap[a] = MovedOut
    /\ ~owned =>
          /\ last.op = "drop"
          /\ err = ""
          /\ head_tail # None =>
                /\ Live(Cur, head_tail[1][1])
                /\ Live(Cur, head_tail[1][2])
          /\ Cardinality(LiveSet(Cur)) = Len(deque)
          /\ Cardinality(LiveSet(Cur)) = nPush - nPopSome
          /\ \A a \in 1..Len(heap) : frees[a] <= 1

\* A list was let go with two nodes still linked, after one node had been
\* popped and freed.
C17_Witness ==
    /\ ~owned
    /\ head_tail # None
    /\ Cardinality(LiveSet(Cur)) = 2
    /\ nPopSome = 1
    /\ \E a \in 1..Len(heap) : frees[a] = 1

Range(q) == {q[k] : k \in 1..Len(q)}

\* C18: between operations on a non-empty list the head's prev slot and
\* the tail's next slot are None, every other prev/next slot of a node of
\* the chain is Some, and a.next addresses b exactly when b.prev
\* addresses a.
C18_SlotsMatchPosition ==
    (err = "" /\ head_tail # None) =>
        LET head == head_tail[1][1]
            tail == head_tail[1][2]
            chain == LiveSet(Cur) \cup Range(Forward(Cur).elems)
        IN  /\ heap[head].prev = None
            /\ heap[tail].next = None
            /\ \A a \in chain :
                  /\ a # head => heap[a].prev # None
                  /\ a # tail => heap[a].next # None
            /\ \A a, b \in chain :
                  (heap[a].next = Some(b)) <=> (heap[b].prev = Some(a))

\* A pop_front has unlinked the head of a three-node list, leaving two
\* nodes of which the new head was an interior node before.
C18_Witness ==
    /\ err = ""
    /\ last.op = "pop_front"
    /\ last.branch = "multi"
    /\ Len(deque) = 2
    /\ nPush = 3
    /\ head_tail # None
    /\ heap[head_tail[1][1]].next = Some(head_tail[1][2])

\* The nodes met by following next edges from a up to the node stop, and
\* by following prev edges; a walk that meets no edge or has taken as many
\* steps as there are allocations ends where it is.
RECURSIVE NextChain(_, _, _, _)
NextChain(s, a, stop, path) ==
    LET p == Append(path, a)
    IN  IF a = stop \/ s.heap[a].next = None \/ Len(p) >= Len(s.heap)
        THEN p
        ELSE NextChain(s, s.heap[a].next[1], stop, p)

RECURSIVE PrevChain(_, _, _, _)
PrevChain(s, a, stop, path) ==
    LET p == Append(path, a)
    IN  IF a = stop \/ s.heap[a].prev = None \/ Len(p) >= Len(s.heap)
        THEN p
        ELSE PrevChain(s, s.heap[a].prev[1], stop, p)

\* C19: in every non-empty state the next edges lead from the head to the
\* tail and the prev edges lead from the tail to the head through the same
\* nodes in the opposite order, and every live node is on that chain.
C19_HeadAndTailReachEachOther ==
    (err = "" /\ head_tail # None) =>
        LET head == head_tail[1][1]
            tail == head_tail[1][2]
            fw == NextChain(Cur, head, tail, <<>>)
            bw == PrevChain(Cur, tail, head, <<>>)
        IN  /\ fw[1] = head
            /\ fw[Len(fw)] = tail
            /\ bw[1] = tail
            /\ bw[Len(bw)] = head
            /\ bw = Reverse(fw)
            /\ NoRepeat(fw)
            /\ Range(fw) = LiveSet(Cur)
            /\ Len(fw) = Len(deque)

\* Three nodes are linked in an order that differs from their allocation
\* order: the last allocation was pushed at the front.
C19_Witness ==
    /\ err = ""
    /\ last.op = "push_front"
    /\ head_tail = Some(<<3, 2>>)
    /\ NextChain(Cur, 3, 2, <<>>) = <<3, 1, 2>>
    /\ PrevChain(Cur, 2, 3, <<>>) = <<2, 1, 3>>

\* What push_front and push_back must leave of the state s they start in:
\* one more allocation holding data, no free, no join, no panic, and every
\* node except the old end node as it was.
PushAllocatesOne(s, r, data, old) ==
    LET a == Len(s.heap) + 1
    IN  /\ Len(r.heap) = a
        /\ r.frees = Append(s.frees, 0)
        /\ r.joins = <<>>
        /\ r.err = ""
        /\ r.heap[a].data = data
        /\ \A x \in 1..Len(s.heap) : x \notin old => r.heap[x] = s.heap[x]

\* C20: push_front on a non-empty list allocates one node and frees none,
\* stores a half-share of the new node in the old head's prev slot, moves
\* the former head half-share into the new node's next slot, makes the new
\* node the head anchor and leaves the tail anchor alone; on an empty list
\* the new node is both anchors.  push_back is the mirror image.
C20_PushLinksNewNodeAtItsEnd ==
    err = "" =>
        \A d \in Data :
            LET a == Len(heap) + 1
                pf == push_front(Cur, d)
                pb == push_back(Cur, d)
            IN  IF head_tail = None
                THEN /\ PushAllocatesOne(Cur, pf, d, {})
                     /\ PushAllocatesOne(Cur, pb, d, {})
                     /\ pf.head_tail = Some(<<a, a>>)
                     /\ pb.head_tail = Some(<<a, a>>)
                     /\ pf.heap[a] = [data |-> d, prev |-> None, next |-> None]
                     /\ pb.heap[a] = [data |-> d, prev |-> None, next |-> None]
                ELSE LET head == head_tail[1][1]
                         tail == head_tail[1][2]
                     IN  /\ PushAllocatesOne(Cur, pf, d, {head})
                         /\ pf.heap[head] = [heap[head] EXCEPT !.prev = Some(a)]
                         /\ pf.heap[a] = [data |-> d, prev |-> None,
                                          next |-> Some(head)]
                         /\ pf.head_tail = Some(<<a, tail>>)
                         /\ PushAllocatesOne(Cur, pb, d, {tail})
                         /\ pb.heap[tail] = [heap[tail] EXCEPT !.next = Some(a)]
                         /\ pb.heap[a] = [data |-> d, prev |-> Some(tail),
                                          next |-> None]
                         /\ pb.head_tail = Some(<<head, a>>)

\* A push_front has put a third node in front of the node pushed before it.
C20_Witness ==
    /\ err = ""
    /\ last.op = "push_front"
    /\ Len(deque) = 3
    /\ head_tail # None
    /\ head_tail[1][1] = 3
    /\ heap[3].next = Some(2)
    /\ heap[2].prev = Some(3)
    /\ frees = <<0, 0, 0>>

\* Every node of s except those in touched is the same in r.
SameNodesExcept(s, r, touched) ==
    /\ Len(r.heap) = Len(s.heap)
    /\ \A x \in 1..Len(s.heap) : x \notin touched => r.heap[x] = s.heap[x]

\* C21: on a list of two or more nodes pop_front makes the old head's
\* successor the new head, leaves the tail anchor alone and changes no
\* node but the removed head and the prev slot of its successor; pop_back
\* is the mirror image at the tail.
C21_PopTouchesOnlyItsEnd ==
    (err = "" /\ head_tail # None /\ head_tail[1][1] # head_tail[1][2]) =>
        LET head == head_tail[1][1]
            tail == head_tail[1][2]
            pf == pop_front(Cur)
            pb == pop_back(Cur)
        IN  /\ heap[head].next # None
            /\ heap[tail].prev # None
            /\ LET succ == heap[head].next[1]
                   pred == heap[tail].prev[1]
               IN  /\ pf.st.err = ""
                   /\ pf.ret = Some(heap[head].data)
                   /\ pf.st.head_tail = Some(<<succ, tail>>)
                   /\ SameNodesExcept(Cur, pf.st, {head, succ})
                   /\ pf.st.heap[succ] = [heap[succ] EXCEPT !.prev = None]
                   /\ LiveSet(pf.st) = LiveSet(Cur) \ {head}
                   /\ pb.st.err = ""
                   /\ pb.ret = Some(heap[tail].data)
                   /\ pb.st.head_tail = Some(<<head, pred>>)
                   /\ SameNodesExcept(Cur, pb.st, {tail, pred})
                   /\ pb.st.heap[pred] = [heap[pred] EXCEPT !.next = None]
                   /\ LiveSet(pb.st) = LiveSet(Cur) \ {tail}

\* A pop_back has unlinked the tail of a three-node list whose nodes were
\* not linked in allocation order.
C21_Witness ==
    /\ err = ""
    /\ last.op = "pop_back"
    /\ last.branch = "multi"
    /\ nPush = 3
    /\ head_tail = Some(<<3, 1>>)
    /\ frees = <<0, 1, 0>>
    /\ heap[1].next = None
    /\ heap[3].next = Some(1)

\* The number of half-shares of allocation a held in s: by the anchors and
\* by the prev and next slots of the live nodes.
HalvesHeld(s, a) ==
    (IF s.head_tail # None /\ s.head_tail[1][1] = a THEN 1 ELSE 0)
    + (IF s.head_tail # None /\ s.head_tail[1][2] = a THEN 1 ELSE 0)
    + Cardinality({b \in LiveSet(s) : s.heap[b].next = Some(a)})
    + Cardinality({b \in LiveSet(s) : s.heap[b].prev = Some(a)})

AssertionMessages == {"assertion failed: node.prev.is_none()",
                      "assertion failed: node.next.is_none()"}

\* A removal that ended without a failed assertion and left both
\* half-shares of every node that is still live in place.
DestroysCleanly(r) ==
    /\ r.err \notin AssertionMessages
    /\ \A a \in LiveSet(r) : HalvesHeld(r, a) = 2

\* C22: a node that into_inner destroys, from pop_front, pop_back or clear,
\* holds no prev and no next half-share at that moment: the assertions of
\* into_inner never fail, and no half-share of a node that stays live is
\* dropped with the destroyed node.
C22_DestroyedNodeHoldsNoEdge ==
    /\ err \notin AssertionMessages
    /\ err = "" =>
          /\ DestroysCleanly(pop_front(Cur).st)
          /\ DestroysCleanly(pop_back(Cur).st)
          /\ DestroysCleanly(clear(Cur).st)
          /\ head_tail # None =>
                /\ heap[head_tail[1][1]].prev = None
                /\ heap[head_tail[1][2]].next = None

\* Three nodes were destroyed in one run: two by pops and the last one,
\* by then both head and tail, by clear.
C22_Witness ==
    /\ err = ""
    /\ last.op = "clear"
    /\ Len(last.ret) = 1
    /\ frees = <<1, 1, 1>>
    /\ nPopSome = 3

\* C23: clear on a list of n elements ends after n pop_back calls that
\* return an element and one that returns None, frees every node of the
\* list once, and removes the elements from the back towards the front.
C23_ClearPopsBackUntilEmpty ==
    /\ err = "" =>
          LET c == clear(Cur)
              n == Len(deque)
          IN  /\ c.calls = n + 1
              /\ Len(c.popped) = n
              /\ c.popped = Reverse(deque)
              /\ Len(c.st.joins) = n
              /\ LiveSet(c.st) = {}
              /\ \A a \in LiveSet(Cur) : c.st.frees[a] = 1
              /\ \A a \in 1..Len(heap) : a \notin LiveSet(Cur) =>
                                            c.st.frees[a] = frees[a]
              /\ c.st.head_tail = None
              /\ c.st.err = ""
    /\ last.op = "clear" =>
          /\ last.ret = last.ref
          /\ Len(joins) = Len(last.ret)
          /\ LiveSet(Cur) = {}

\* A clear has removed three elements, the last pushed at the back first,
\* from a list whose ends held different payloads.
C23_Witness ==
    /\ err = ""
    /\ last.op = "clear"
    /\ Len(last.ret) = 3
    /\ last.ret[1] # last.ret[3]
    /\ frees = <<1, 1, 1>>
    /\ Len(joins) = 3

\* The nodes reachable from the anchors of s along next edges.
Reachable(s) ==
    IF s.head_tail = None THEN {}
    ELSE Range(NextChain(s, s.head_tail[1][1], s.head_tail[1][2], <<>>))
         \cup {s.head_tail[1][2]}

\* C24: between operations on a list its caller still owns, the number of
\* live allocations is the length of the list: the live nodes are exactly
\* the nodes reachable from the anchors, so none is live but unreachable
\* and none is reachable but freed.
C24_LiveNodesAreTheListsNodes ==
    (err = "" /\ owned) =>
        /\ Cardinality(LiveSet(Cur)) = len(Cur)
        /\ \A a \in LiveSet(Cur) : a \in Reachable(Cur)
        /\ \A a \in Reachable(Cur) : Live(Cur, a)
        /\ Cardinality(Reachable(Cur)) = len(Cur)

\* len() was called on an owned list of two nodes after a third node had
\* been popped and freed.
C24_Witness ==
    /\ err = ""
    /\ owned
    /\ last.op = "len"
    /\ last.ret = 2
    /\ Len(heap) = 3
    /\ Cardinality(LiveSet(Cur)) = 2
    /\ nPopSome = 1

\* A write of d to node a of Cur that left everything but that payload as
\* it was: the anchors, the allocations, every edge and the other payloads.
WroteOnlyData(r, a, d) ==
    /\ r.head_tail = head_tail
    /\ r.frees = frees
    /\ r.joins = <<>>
    /\ r.err = ""
    /\ SameNodesExcept(Cur, r, {a})
    /\ r.heap[a] = [heap[a] EXCEPT !.data = d]
    /\ LiveSet(r) = LiveSet(Cur)

\* C25: a write through front_mut (back_mut) changes the payload of the
\* head (tail) node and nothing else, and the written value is what a
\* later front/pop_front (back/pop_back) returns and what an iteration
\* yields at that position.
C25_MutWritesOnlyEndPayload ==
    (err = "" /\ head_tail # None) =>
        \A d \in Data :
            LET head == head_tail[1][1]
                tail == head_tail[1][2]
                n == Len(deque)
                fm == front_mut(Cur, d)
                bm == back_mut(Cur, d)
            IN  /\ fm.ret = Some(head)
                /\ WroteOnlyData(fm.st, head, d)
                /\ front(fm.st) = Some(d)
                /\ pop_front(fm.st).ret = Some(d)
                /\ Forward(fm.st).data = [deque EXCEPT ![1] = d]
                /\ bm.ret = Some(tail)
                /\ WroteOnlyData(bm.st, tail, d)
                /\ back(bm.st) = Some(d)
                /\ pop_back(bm.st).ret = Some(d)
                /\ Backward(bm.st).data = Reverse([deque EXCEPT ![n] = d])

\* front_mut has written to the head of a three-node list whose other
\* nodes hold a different payload.
C25_Witness ==
    /\ err = ""
    /\ last.op = "front_mut"
    /\ last.ret # None
    /\ Len(deque) = 3
    /\ deque = <<2, 1, 1>>
    /\ heap[head_tail[1][1]].data = 2
    /\ heap[head_tail[1][2]].data = 1

IterCalls == {"next", "next_back"}

\* An exhausted cursor: both next() and next_back() return None on it and
\* leave it exhausted.
Exhausted(i, s) ==
    /\ i.head_tail = None
    /\ next(i, s).ret = None
    /\ next(i, s).it.head_tail = None
    /\ next_back(i, s).ret = None
    /\ next_back(i, s).it.head_tail = None

\* C26: the iterator is fused.  Once a call to next() or next_back() has
\* returned None the cursor is exhausted and every later call of either
\* returns None; an iterator created over an empty list is exhausted from
\* the start and returns None on its first call.
C26_IteratorIsFused ==
    /\ [](/\ (it.active /\ it.ended) =>
                Exhausted([head_tail |-> it.head_tail], Cur)
          /\ (err = "" /\ head_tail = None) => Exhausted(iter(Cur), Cur)
          /\ (it.active /\ it.again) => (it.ended /\ last.ret = None))
    /\ [][(it.active /\ last'.op \in IterCalls
           /\ (it.ended \/ head_tail = None)) =>
              (last'.ret = None /\ it'.ended /\ it'.head_tail = None)]_vars

\* After an iterator over two elements returned None, next_back() was
\* called on it again.
C26_Witness ==
    /\ err = ""
    /\ it.active
    /\ it.again
    /\ last.op = "next_back"
    /\ last.ret = None
    /\ Len(deque) = 2
    /\ SumSeq(it.yielded) >= 2

====
